---- MODULE Spec2Model ----
(***************************************************************************)
(* SeoBoost: the rule-based SEO scorer (server/routes.ts analyzeSEO), the  *)
(* POST /api/analyze route around it, the shared request schemas, the      *)
(* client utilities (seo-utils), the Home page and ScoreDisplay.           *)
(*                                                                         *)
(* A text is a sequence of one-character strings.  An attribute value or   *)
(* any other value that may be undefined is a sequence of length 0         *)
(* (undefined) or 1 (the value).  A document is what cheerio.load() makes  *)
(* of the HTML text, reduced to the elements analyzeSEO queries, plus the  *)
(* beginning of the raw text, which analyzeSEO inspects directly.          *)
(***************************************************************************)
EXTENDS Integers, Sequences, FiniteSets, TLC

VARIABLES htmlCode, report, utilScore, utilGrade, requests, scored,
          metrics, clientScore, recommendations, url, urlParsed,
          homeHtmlCode, analysisResults, isPending, inFlight, homeEvent,
          results, effectResults, animatedScore, timers, mounted, renders

serverVars == <<htmlCode, report, utilScore, utilGrade, requests, scored>>
utilsVars == <<metrics, clientScore, recommendations, url, urlParsed>>
homeVars == <<homeHtmlCode, analysisResults, isPending, inFlight, homeEvent>>
displayVars == <<results, effectResults, animatedScore, timers, mounted, renders>>

vars == <<serverVars, utilsVars, homeVars, displayVars>>

\* ------------------------------------------------------------------ bounds
MaxTitles == 2
LongTitleLen == 40
MaxMetaDesc == 2
MaxViewport == 2
MaxH1 == 3
MaxImages == 30
MaxDistinct == 41
MaxRepeat == 2
NumRequests == 3
MaxInFlight == 2
MaxRenders == 3

\* ------------------------------------------------------ program constants
\* const maxScore = 100
maxScore == 100

\* --------------------------------------------------------- option values
None == <<>>
Some(v) == <<v>>

\* ------------------------------------------------------ String.prototype
WS == {" ", "\n", "\t"}

Upper == <<"A", "B", "C", "D", "E", "H", "K", "O", "P", "R", "S", "T", "W", "Y">>
Lower == <<"a", "b", "c", "d", "e", "h", "k", "o", "p", "r", "s", "t", "w", "y">>

LowerChar(c) ==
  IF \E i \in 1..Len(Upper) : Upper[i] = c
  THEN Lower[CHOOSE i \in 1..Len(Upper) : Upper[i] = c]
  ELSE c

toLowerCase(s) == [i \in 1..Len(s) |-> LowerChar(s[i])]

trim(s) ==
  LET keep == {i \in 1..Len(s) : s[i] \notin WS}
  IN IF keep = {} THEN <<>>
     ELSE SubSeq(s, CHOOSE i \in keep : \A j \in keep : i <= j,
                    CHOOSE i \in keep : \A j \in keep : i >= j)

startsWith(s, p) == Len(s) >= Len(p) /\ SubSeq(s, 1, Len(p)) = p

substring(s, from, to) == SubSeq(s, from + 1, IF to < Len(s) THEN to ELSE Len(s))

\* the pieces of s from position i on: skip the whitespace run, take the
\* run of other characters, an empty last piece when s ends with whitespace
RECURSIVE SplitFrom(_, _)
SplitFrom(s, i) ==
  IF i > Len(s) THEN <<<<>>>>
  ELSE IF \A m \in i..Len(s) : s[m] \in WS THEN <<<<>>>>
  ELSE LET from == CHOOSE j \in i..Len(s) :
                     s[j] \notin WS /\ \A m \in i..(j - 1) : s[m] \in WS
           to == CHOOSE j \in from..Len(s) :
                   /\ \A m \in from..j : s[m] \notin WS
                   /\ (j = Len(s) \/ s[j + 1] \in WS)
       IN IF to = Len(s) THEN <<SubSeq(s, from, to)>>
          ELSE <<SubSeq(s, from, to)>> \o SplitFrom(s, to + 1)

\* s.split(/\s+/): leading whitespace leaves an empty first piece, trailing
\* whitespace an empty last piece, and "" splits into one empty piece
split(s) ==
  IF s # <<>> /\ s[1] \in WS THEN <<<<>>>> \o SplitFrom(s, 1) ELSE SplitFrom(s, 1)

\* Math.round(15 * (k / n)) for n > 0: round half up
Round15(k, n) == (30 * k + n) \div (2 * n)

\* ------------------------------------------------------------ analyzeSEO
Description(msg, nums, text) == [msg |-> msg, nums |-> nums, text |-> text]

\* $('title').first().text().trim()
title(doc) == IF doc.titles = <<>> THEN <<>> ELSE trim(doc.titles[1])

\* titleCheck demanding that $('title') matches exactly one element
titleCheck_exactlyOne(doc) ==
  LET t == title(doc)
      ok == t # <<>> /\ Len(doc.titles) = 1
  IN [name |-> "Title Tag",
      description |-> Description("No title tag found", <<>>, <<>>),
      passed |-> ok,
      score |-> IF ok THEN 15 ELSE 0,
      maxScore |-> 15,
      status |-> IF ok THEN "success" ELSE "error"]

\* titleCheck with the length band of the client utility (30..60 full, else 10)
titleCheck_lengthBand(doc) ==
  LET t == title(doc)
      ok == Len(t) >= 30 /\ Len(t) <= 60
  IN [name |-> "Title Tag",
      description |-> Description("No title tag found", <<>>, <<>>),
      passed |-> ok,
      score |-> IF ok THEN 15 ELSE IF Len(t) > 0 THEN 10 ELSE 0,
      maxScore |-> 15,
      status |-> IF ok THEN "success" ELSE IF Len(t) > 0 THEN "warning" ELSE "error"]

titleCheck(doc) ==
  LET t == title(doc)
      ok == t # <<>> /\ Len(t) > 0
  IN [name |-> "Title Tag",
      description |->
        IF t # <<>>
        THEN Description("Found title tag with characters", <<Len(t)>>,
                         substring(t, 0, 50) \o
                           (IF Len(t) > 50 THEN <<".", ".", ".">> ELSE <<>>))
        ELSE Description("No title tag found", <<>>, <<>>),
      passed |-> ok,
      score |-> IF ok THEN 15 ELSE 0,
      maxScore |-> 15,
      status |-> IF ok THEN "success" ELSE "error"]

\* $(selector).attr(name): the attribute of the first matched element
FirstAttr(els, attrName) ==
  IF els = <<>> THEN None
  ELSE IF attrName = "content" THEN els[1].content ELSE els[1].charset

MetaNamed(doc, n) == SelectSeq(doc.metas, LAMBDA m : m.name = Some(n))

\* $('meta[name="description"]').attr('content')?.trim()
metaDescription(doc) ==
  LET c == FirstAttr(MetaNamed(doc, "description"), "content")
  IN IF c = None THEN None ELSE Some(trim(c[1]))

\* truthiness of a string that may be undefined
Truthy(opt) == opt # None /\ opt[1] # <<>>

\* metaCheck that takes the content as it is, without trimming
metaCheck_untrimmed(doc) ==
  LET ok == Truthy(FirstAttr(MetaNamed(doc, "description"), "content"))
  IN [name |-> "Meta Description",
      description |-> Description("No meta description found", <<>>, <<>>),
      passed |-> ok,
      score |-> IF ok THEN 15 ELSE 0,
      maxScore |-> 15,
      status |-> IF ok THEN "success" ELSE "error"]

metaCheck(doc) ==
  LET d == metaDescription(doc)
      ok == Truthy(d) /\ Len(d[1]) > 0
  IN [name |-> "Meta Description",
      description |->
        IF Truthy(d)
        THEN Description("Found meta description with characters", <<Len(d[1])>>, <<>>)
        ELSE Description("No meta description found", <<>>, <<>>),
      passed |-> ok,
      score |-> IF ok THEN 15 ELSE 0,
      maxScore |-> 15,
      status |-> IF ok THEN "success" ELSE "error"]

\* $('h1').length
h1Tags(doc) == doc.h1Count

\* h1Check that accepts any positive number of h1 elements
h1Check_atLeastOne(doc) ==
  LET n == h1Tags(doc)
  IN [name |-> "H1 Tag",
      description |-> Description("No H1 tag found", <<>>, <<>>),
      passed |-> n >= 1,
      score |-> IF n >= 1 THEN 10 ELSE 0,
      maxScore |-> 10,
      status |-> IF n >= 1 THEN "success" ELSE "error"]

\* h1Check that also demands a non-empty title
h1Check_needsTitle(doc) ==
  LET ok == h1Tags(doc) = 1 /\ title(doc) # <<>>
  IN [name |-> "H1 Tag",
      description |-> Description("No H1 tag found", <<>>, <<>>),
      passed |-> ok,
      score |-> IF ok THEN 10 ELSE 0,
      maxScore |-> 10,
      status |-> IF ok THEN "success" ELSE "error"]

h1Check(doc) ==
  LET n == h1Tags(doc)
  IN [name |-> "H1 Tag",
      description |->
        IF n = 1 THEN Description("Found exactly one H1 tag", <<>>, <<>>)
        ELSE IF n = 0 THEN Description("No H1 tag found", <<>>, <<>>)
        ELSE Description("Found H1 tags. Use only one", <<n>>, <<>>),
      passed |-> n = 1,
      score |-> IF n = 1 THEN 10 ELSE 0,
      maxScore |-> 10,
      status |-> IF n = 1 THEN "success" ELSE "error"]

\* $('img')
images(doc) == doc.imgs

\* $('img[alt]').filter((_, el) => $(el).attr('alt')?.trim())
imagesWithAlt(doc) ==
  SelectSeq(doc.imgs, LAMBDA alt : alt # None /\ trim(alt[1]) # <<>>)

\* altCheck that multiplies by the count instead of the ratio
altCheck_noRatio(doc) ==
  LET n == Len(images(doc))
      k == Len(imagesWithAlt(doc))
  IN [name |-> "Image Alt Attributes",
      description |-> Description("No images found", <<>>, <<>>),
      passed |-> n = 0 \/ k = n,
      score |-> IF n > 0 THEN 15 * k ELSE 15,
      maxScore |-> 15,
      status |-> IF n = 0 \/ k = n THEN "success"
                 ELSE IF 2 * k > n THEN "warning" ELSE "error"]

\* altCheck whose warning band starts at a ratio of exactly one half
altCheck_halfIsWarning(doc) ==
  LET n == Len(images(doc))
      k == Len(imagesWithAlt(doc))
  IN [name |-> "Image Alt Attributes",
      description |-> Description("No images found", <<>>, <<>>),
      passed |-> n = 0 \/ k = n,
      score |-> IF n > 0 THEN Round15(k, n) ELSE 15,
      maxScore |-> 15,
      status |-> IF n = 0 \/ k = n THEN "success"
                 ELSE IF 2 * k >= n THEN "warning" ELSE "error"]

altCheck(doc) ==
  LET n == Len(images(doc))
      k == Len(imagesWithAlt(doc))
      altScore == IF n > 0 THEN Round15(k, n) ELSE 15
      ratioOverHalf == IF n > 0 THEN 2 * k > n ELSE TRUE
  IN [name |-> "Image Alt Attributes",
      description |->
        IF n = 0 THEN Description("No images found", <<>>, <<>>)
        ELSE IF k = n THEN Description("All images have alt attributes", <<n>>, <<>>)
        ELSE Description("out of images have alt attributes", <<k, n>>, <<>>),
      passed |-> n = 0 \/ k = n,
      score |-> altScore,
      maxScore |-> 15,
      status |-> IF n = 0 \/ k = n THEN "success"
                 ELSE IF ratioOverHalf THEN "warning" ELSE "error"]

\* $('meta[name="viewport"]').attr('content')
viewport(doc) == FirstAttr(MetaNamed(doc, "viewport"), "content")

\* viewportCheck that trims the content first
viewportCheck_trimmed(doc) ==
  LET v == viewport(doc)
      ok == v # None /\ trim(v[1]) # <<>>
  IN [name |-> "Mobile Viewport Tag",
      description |-> Description("No viewport meta tag found", <<>>, <<>>),
      passed |-> ok,
      score |-> IF ok THEN 10 ELSE 0,
      maxScore |-> 10,
      status |-> IF ok THEN "success" ELSE "error"]

viewportCheck(doc) ==
  LET ok == Truthy(viewport(doc))
  IN [name |-> "Mobile Viewport Tag",
      description |->
        IF ok THEN Description("Mobile viewport meta tag is properly configured", <<>>, <<>>)
        ELSE Description("No viewport meta tag found", <<>>, <<>>),
      passed |-> ok,
      score |-> IF ok THEN 10 ELSE 0,
      maxScore |-> 10,
      status |-> IF ok THEN "success" ELSE "error"]

\* $('body').text().toLowerCase().split(/\s+/).filter(word => word.length > 3)
words(doc) == SelectSeq(split(toLowerCase(doc.bodyText)), LAMBDA w : Len(w) > 3)

\* the property names every object inherits from Object.prototype that a
\* lower-cased token longer than 3 characters can spell
ConstructorKey == <<"c", "o", "n", "s", "t", "r", "u", "c", "t", "o", "r">>
ProtoKey == <<"_", "_", "p", "r", "o", "t", "o", "_", "_">>
InheritedKeys == {ConstructorKey, ProtoKey}

\* words.forEach(word => wordFreq[word] = (wordFreq[word] || 0) + 1) on the
\* object literal {}, kept as Object.entries(wordFreq): the own properties in
\* insertion order.  Reading a key the object does not own yields the
\* inherited value when there is one (an object, so truthy, and + 1 makes a
\* string of it) and undefined otherwise; a string value stays a string under
\* + 1; assigning to __proto__ with a string stores nothing.  isNum tells a
\* number from a string; count is the number of assignments either way.
RECURSIVE CountFrom(_, _, _)
CountFrom(ws, i, freq) ==
  IF i > Len(ws) THEN freq
  ELSE LET hit == {j \in 1..Len(freq) : freq[j].word = ws[i]}
       IN IF hit # {}
          THEN CountFrom(ws, i + 1,
                 [j \in 1..Len(freq) |->
                    IF j \in hit THEN [freq[j] EXCEPT !.count = @ + 1] ELSE freq[j]])
          ELSE IF ws[i] = ProtoKey
          THEN CountFrom(ws, i + 1, freq)
          ELSE CountFrom(ws, i + 1,
                 Append(freq, [word |-> ws[i], count |-> 1,
                               isNum |-> ws[i] \notin InheritedKeys]))

wordFreq(ws) == CountFrom(ws, 1, <<>>)

\* the comparator ([,a], [,b]) => b - a applied to entries x and y; a string
\* operand makes b - a NaN, which sort takes as +0
compare(x, y) == IF x.isNum /\ y.isNum THEN y.count - x.count ELSE 0

\* Array.prototype.sort for fewer than 64 elements: the leading run is found
\* (and reversed when it strictly descends under the comparator) ...
RunIsDescending(a) == compare(a[2], a[1]) < 0

RunLength(a) ==
  IF Len(a) < 2 THEN Len(a)
  ELSE LET stops == {idx \in 3..Len(a) :
                       IF RunIsDescending(a) THEN compare(a[idx], a[idx - 1]) >= 0
                       ELSE compare(a[idx], a[idx - 1]) < 0}
       IN IF stops = {} THEN Len(a)
          ELSE (CHOOSE idx \in stops : \A j \in stops : idx <= j) - 1

CountAndMakeRun(a) ==
  IF Len(a) >= 2 /\ RunIsDescending(a)
  THEN [i \in 1..Len(a) |-> IF i <= RunLength(a) THEN a[RunLength(a) + 1 - i] ELSE a[i]]
  ELSE a

\* ... and every later element is put into the sorted prefix at the place a
\* binary search finds for it
RECURSIVE BinarySearch(_, _, _, _)
BinarySearch(a, pivot, left, right) ==
  IF left >= right THEN left
  ELSE LET mid == left + ((right - left) \div 2)
       IN IF compare(pivot, a[mid]) < 0
          THEN BinarySearch(a, pivot, left, mid)
          ELSE BinarySearch(a, pivot, mid + 1, right)

RECURSIVE BinaryInsertionSort(_, _)
BinaryInsertionSort(a, start) ==
  IF start > Len(a) THEN a
  ELSE LET left == BinarySearch(a, a[start], 1, start)
       IN BinaryInsertionSort(
            SubSeq(a, 1, left - 1) \o <<a[start]>> \o SubSeq(a, left, start - 1)
              \o SubSeq(a, start + 1, Len(a)),
            start + 1)

sort(a) ==
  IF Len(a) < 2 THEN a
  ELSE BinaryInsertionSort(CountAndMakeRun(a), RunLength(a) + 1)

\* Object.entries(wordFreq).sort(...).slice(0, 5)
topWords(freq) ==
  LET sorted == sort(freq)
  IN SubSeq(sorted, 1, IF Len(sorted) < 5 THEN Len(sorted) ELSE 5)

\* hasGoodDensity with <= 0.05 in place of < 0.05
hasGoodDensity_inclusive(top, wordCount) ==
  Len(top) > 0 /\ top[1].isNum /\ 20 * top[1].count <= wordCount

\* topWords.length > 0 && topWords[0][1] / wordCount < 0.05; a string
\* divided by a number is NaN, and NaN < 0.05 is false
hasGoodDensity(top, wordCount) ==
  Len(top) > 0 /\ top[1].isNum /\ 20 * top[1].count < wordCount

keywordCheck(doc) ==
  LET ws == words(doc)
      wordCount == Len(ws)
      top == topWords(wordFreq(ws))
      good == hasGoodDensity(top, wordCount)
  IN [name |-> "Keyword Density",
      description |->
        IF wordCount = 0 THEN Description("No text content found for analysis", <<>>, <<>>)
        ELSE IF good
             THEN Description("Good keyword distribution. Most frequent",
                              <<top[1].count, wordCount>>, top[1].word)
             ELSE IF Len(top) > 0
                  THEN Description("Keyword density may be too high. Most frequent",
                                   <<top[1].count, wordCount>>, top[1].word)
                  ELSE Description("Unable to analyze keyword density", <<>>, <<>>),
      passed |-> good,
      score |-> IF good THEN 20 ELSE IF wordCount > 0 THEN 10 ELSE 0,
      maxScore |-> 20,
      status |-> IF good THEN "success" ELSE IF wordCount > 0 THEN "warning" ELSE "error"]

\* $('html[lang]').length > 0
hasLang(doc) == doc.htmlLang # None

\* $('meta[charset]').length > 0
hasCharset(doc) == \E i \in 1..Len(doc.metas) : doc.metas[i].charset # None

DoctypePrefix == <<"<", "!", "d", "o", "c", "t", "y", "p", "e">>

\* htmlCode.trim().toLowerCase().startsWith('<!doctype')
hasDoctype(doc) == startsWith(toLowerCase(trim(doc.rawHead)), DoctypePrefix)

Flag(b) == IF b THEN 1 ELSE 0

\* improvementCheck that counts two of the three sub-checks as passed
improvementCheck_passAt10(doc) ==
  LET improvementScore == (IF hasLang(doc) THEN 5 ELSE 0)
                          + (IF hasCharset(doc) THEN 5 ELSE 0)
                          + (IF hasDoctype(doc) THEN 5 ELSE 0)
  IN [name |-> "General Improvements",
      description |-> Description("Document structure", <<>>, <<>>),
      passed |-> improvementScore >= 10,
      score |-> improvementScore,
      maxScore |-> 15,
      status |-> IF improvementScore = 15 THEN "success"
                 ELSE IF improvementScore > 5 THEN "warning" ELSE "error"]

\* improvementCheck whose warning band starts at 5 points
improvementCheck_warnAt5(doc) ==
  LET improvementScore == (IF hasLang(doc) THEN 5 ELSE 0)
                          + (IF hasCharset(doc) THEN 5 ELSE 0)
                          + (IF hasDoctype(doc) THEN 5 ELSE 0)
  IN [name |-> "General Improvements",
      description |-> Description("Document structure", <<>>, <<>>),
      passed |-> improvementScore = 15,
      score |-> improvementScore,
      maxScore |-> 15,
      status |-> IF improvementScore = 15 THEN "success"
                 ELSE IF improvementScore >= 5 THEN "warning" ELSE "error"]

improvementCheck(doc) ==
  LET improvementScore == (IF hasLang(doc) THEN 5 ELSE 0)
                          + (IF hasCharset(doc) THEN 5 ELSE 0)
                          + (IF hasDoctype(doc) THEN 5 ELSE 0)
  IN [name |-> "General Improvements",
      description |->
        Description("Document structure: DOCTYPE, Lang attribute, Charset",
                    <<Flag(hasDoctype(doc)), Flag(hasLang(doc)), Flag(hasCharset(doc))>>, <<>>),
      passed |-> improvementScore = 15,
      score |-> improvementScore,
      maxScore |-> 15,
      status |-> IF improvementScore = 15 THEN "success"
                 ELSE IF improvementScore > 5 THEN "warning" ELSE "error"]

\* gradeLetter with exclusive lower bounds
gradeLetter_exclusive(totalScore) ==
  IF totalScore > 90 THEN "A+"
  ELSE IF totalScore > 80 THEN "A"
  ELSE IF totalScore > 70 THEN "B"
  ELSE IF totalScore > 60 THEN "C"
  ELSE IF totalScore > 50 THEN "D"
  ELSE "F"

\* let grade = "F"; if (totalScore >= 90) grade = "A+"; else if ...
gradeLetter(totalScore) ==
  IF totalScore >= 90 THEN "A+"
  ELSE IF totalScore >= 80 THEN "A"
  ELSE IF totalScore >= 70 THEN "B"
  ELSE IF totalScore >= 60 THEN "C"
  ELSE IF totalScore >= 50 THEN "D"
  ELSE "F"

\* buildReport that forgets to add the keyword check's score to the total
buildReport_skipsKeyword(checks) ==
  LET totalScore == checks[1].score + checks[2].score + checks[3].score
                    + checks[4].score + checks[5].score + checks[7].score
  IN [score |-> totalScore,
      maxScore |-> maxScore,
      grade |-> gradeLetter(totalScore) \o " (" \o ToString(totalScore) \o "/100)",
      checks |-> checks,
      issuesCount |-> Len(SelectSeq(checks, LAMBDA c : ~c.passed)),
      passedCount |-> Len(SelectSeq(checks, LAMBDA c : c.passed)),
      warningCount |-> Len(SelectSeq(checks, LAMBDA c : c.status = "warning"))]

\* buildReport that counts the issues from status instead of passed
buildReport_issuesFromStatus(checks) ==
  LET totalScore == checks[1].score + checks[2].score + checks[3].score
                    + checks[4].score + checks[5].score + checks[6].score
                    + checks[7].score
  IN [score |-> totalScore,
      maxScore |-> maxScore,
      grade |-> gradeLetter(totalScore) \o " (" \o ToString(totalScore) \o "/100)",
      checks |-> checks,
      issuesCount |-> Len(SelectSeq(checks, LAMBDA c : c.status = "error")),
      passedCount |-> Len(SelectSeq(checks, LAMBDA c : c.passed)),
      warningCount |-> Len(SelectSeq(checks, LAMBDA c : c.status = "warning"))]

\* the stats, the grade and the returned object, from the seven checks
buildReport(checks) ==
  LET totalScore == checks[1].score + checks[2].score + checks[3].score
                    + checks[4].score + checks[5].score + checks[6].score
                    + checks[7].score
      passedCount == Len(SelectSeq(checks, LAMBDA c : c.passed))
      warningCount == Len(SelectSeq(checks, LAMBDA c : c.status = "warning"))
      issuesCount == Len(SelectSeq(checks, LAMBDA c : ~c.passed))
  IN [score |-> totalScore,
      maxScore |-> maxScore,
      grade |-> gradeLetter(totalScore) \o " (" \o ToString(totalScore) \o "/100)",
      checks |-> checks,
      issuesCount |-> issuesCount,
      passedCount |-> passedCount,
      warningCount |-> warningCount]

\* analyzeSEO that pushes the viewport check before the image check
analyzeSEO_swapped(doc) ==
  CHOOSE r \in {buildReport(checks) :
                  checks \in {<<titleCheck(doc), metaCheck(doc), h1Check(doc),
                                viewportCheck(doc), altCheck(doc), keywordCheck(doc),
                                improvementCheck(doc)>>}} : TRUE

\* the seven checks are pushed in this order, each evaluated once
analyzeSEO(doc) ==
  CHOOSE r \in {buildReport(checks) :
                  checks \in {<<titleCheck(doc), metaCheck(doc), h1Check(doc),
                                altCheck(doc), viewportCheck(doc), keywordCheck(doc),
                                improvementCheck(doc)>>}} : TRUE

\* ------------------------------------------- client utility (seo-utils)
getSEOGrade(score) ==
  IF score >= 90 THEN "A+"
  ELSE IF score >= 80 THEN "A"
  ELSE IF score >= 70 THEN "B"
  ELSE IF score >= 60 THEN "C"
  ELSE IF score >= 50 THEN "D"
  ELSE "F"

formatScoreWithGrade(score) ==
  getSEOGrade(score) \o " (" \o ToString(score) \o "/100)"

\* a density is the quotient num/den of two integers, den > 0
DensityAbove(d, permille) == 1000 * d[1] > permille * d[2]
DensityBelow(d, permille) == 1000 * d[1] < permille * d[2]

\* calculateSEOScore that gives nothing for a page without images
calculateSEOScore_noImageBonus(m) ==
  LET titleScore == IF m.titleLength > 0
                    THEN (IF m.titleLength >= 30 /\ m.titleLength <= 60 THEN 15 ELSE 10)
                    ELSE 0
      metaScore == IF m.metaDescriptionLength > 0
                   THEN (IF m.metaDescriptionLength >= 120 /\ m.metaDescriptionLength <= 160
                         THEN 15 ELSE 10)
                   ELSE 0
      h1Score == IF m.h1Count = 1 THEN 10 ELSE IF m.h1Count > 1 THEN 5 ELSE 0
      imageScore == IF m.imageCount = 0 THEN 0 ELSE Round15(m.imagesWithAlt, m.imageCount)
      viewportScore == IF m.hasViewport THEN 10 ELSE 0
      keywordScore ==
        IF Len(m.topKeywords) > 0
        THEN LET topKeywordDensity == m.topKeywords[1].density
             IN IF DensityAbove(topKeywordDensity, 10) /\ DensityBelow(topKeywordDensity, 50)
                THEN 20
                ELSE IF DensityAbove(topKeywordDensity, 0) /\ DensityBelow(topKeywordDensity, 80)
                THEN 15
                ELSE IF DensityAbove(topKeywordDensity, 0) THEN 10 ELSE 0
        ELSE 0
      structureScore == (IF m.hasDoctype THEN 5 ELSE 0) + (IF m.hasLang THEN 5 ELSE 0)
                        + (IF m.hasCharset THEN 5 ELSE 0)
      score == titleScore + metaScore + h1Score + imageScore + viewportScore
               + keywordScore + structureScore
  IN IF score < 100 THEN score ELSE 100

calculateSEOScore(m) ==
  LET titleScore == IF m.titleLength > 0
                    THEN (IF m.titleLength >= 30 /\ m.titleLength <= 60 THEN 15 ELSE 10)
                    ELSE 0
      metaScore == IF m.metaDescriptionLength > 0
                   THEN (IF m.metaDescriptionLength >= 120 /\ m.metaDescriptionLength <= 160
                         THEN 15 ELSE 10)
                   ELSE 0
      h1Score == IF m.h1Count = 1 THEN 10 ELSE IF m.h1Count > 1 THEN 5 ELSE 0
      imageScore == IF m.imageCount = 0 THEN 15 ELSE Round15(m.imagesWithAlt, m.imageCount)
      viewportScore == IF m.hasViewport THEN 10 ELSE 0
      keywordScore ==
        IF Len(m.topKeywords) > 0
        THEN LET topKeywordDensity == m.topKeywords[1].density
             IN IF DensityAbove(topKeywordDensity, 10) /\ DensityBelow(topKeywordDensity, 50)
                THEN 20
                ELSE IF DensityAbove(topKeywordDensity, 0) /\ DensityBelow(topKeywordDensity, 80)
                THEN 15
                ELSE IF DensityAbove(topKeywordDensity, 0) THEN 10 ELSE 0
        ELSE 0
      structureScore == (IF m.hasDoctype THEN 5 ELSE 0) + (IF m.hasLang THEN 5 ELSE 0)
                        + (IF m.hasCharset THEN 5 ELSE 0)
      score == titleScore + metaScore + h1Score + imageScore + viewportScore
               + keywordScore + structureScore
  IN IF score < 100 THEN score ELSE 100

Recommendation(type, severity, message) ==
  [type |-> type, severity |-> severity, message |-> message]

\* generateRecommendations that calls a title of exactly 30 characters too short
generateRecommendations_shortAt30(m) ==
  (IF m.titleLength = 0 THEN <<Recommendation("title", "error", "Missing title tag")>>
   ELSE IF m.titleLength <= 30
   THEN <<Recommendation("title", "warning", "Title tag is too short")>>
   ELSE IF m.titleLength > 60
   THEN <<Recommendation("title", "warning", "Title tag is too long")>>
   ELSE <<>>)
  \o (IF m.metaDescriptionLength = 0
      THEN <<Recommendation("meta", "error", "Missing meta description")>>
      ELSE IF m.metaDescriptionLength < 120
      THEN <<Recommendation("meta", "warning", "Meta description is too short")>>
      ELSE IF m.metaDescriptionLength > 160
      THEN <<Recommendation("meta", "warning", "Meta description is too long")>>
      ELSE <<>>)
  \o (IF m.h1Count = 0 THEN <<Recommendation("h1", "error", "Missing H1 tag")>>
      ELSE IF m.h1Count > 1
      THEN <<Recommendation("h1", "warning", "Multiple H1 tags found")>>
      ELSE <<>>)
  \o (IF m.imageCount > 0 /\ m.imagesWithAlt < m.imageCount
      THEN <<Recommendation("images", "warning", "Some images missing alt attributes")>>
      ELSE <<>>)
  \o (IF ~m.hasViewport
      THEN <<Recommendation("viewport", "error", "Missing viewport meta tag")>>
      ELSE <<>>)
  \o (IF ~m.hasDoctype
      THEN <<Recommendation("structure", "warning", "Missing DOCTYPE declaration")>>
      ELSE <<>>)
  \o (IF ~m.hasLang
      THEN <<Recommendation("structure", "warning", "Missing language attribute")>>
      ELSE <<>>)
  \o (IF ~m.hasCharset
      THEN <<Recommendation("structure", "warning", "Missing charset declaration")>>
      ELSE <<>>)

generateRecommendations(m) ==
  (IF m.titleLength = 0 THEN <<Recommendation("title", "error", "Missing title tag")>>
   ELSE IF m.titleLength < 30
   THEN <<Recommendation("title", "warning", "Title tag is too short")>>
   ELSE IF m.titleLength > 60
   THEN <<Recommendation("title", "warning", "Title tag is too long")>>
   ELSE <<>>)
  \o (IF m.metaDescriptionLength = 0
      THEN <<Recommendation("meta", "error", "Missing meta description")>>
      ELSE IF m.metaDescriptionLength < 120
      THEN <<Recommendation("meta", "warning", "Meta description is too short")>>
      ELSE IF m.metaDescriptionLength > 160
      THEN <<Recommendation("meta", "warning", "Meta description is too long")>>
      ELSE <<>>)
  \o (IF m.h1Count = 0 THEN <<Recommendation("h1", "error", "Missing H1 tag")>>
      ELSE IF m.h1Count > 1
      THEN <<Recommendation("h1", "warning", "Multiple H1 tags found")>>
      ELSE <<>>)
  \o (IF m.imageCount > 0 /\ m.imagesWithAlt < m.imageCount
      THEN <<Recommendation("images", "warning", "Some images missing alt attributes")>>
      ELSE <<>>)
  \o (IF ~m.hasViewport
      THEN <<Recommendation("viewport", "error", "Missing viewport meta tag")>>
      ELSE <<>>)
  \o (IF ~m.hasDoctype
      THEN <<Recommendation("structure", "warning", "Missing DOCTYPE declaration")>>
      ELSE <<>>)
  \o (IF ~m.hasLang
      THEN <<Recommendation("structure", "warning", "Missing language attribute")>>
      ELSE <<>>)
  \o (IF ~m.hasCharset
      THEN <<Recommendation("structure", "warning", "Missing charset declaration")>>
      ELSE <<>>)

\* ------------------------------------------- analyzeUrlRequestSchema
HttpPrefix == <<"h", "t", "t", "p", ":", "/", "/">>
HttpsPrefix == <<"h", "t", "t", "p", "s", ":", "/", "/">>

\* url.match(/^https?:\/\//)
matchesHttp(u) == startsWith(u, HttpPrefix) \/ startsWith(u, HttpsPrefix)

\* the .transform step
transformUrl(u) == IF ~matchesHttp(u) THEN HttpsPrefix \o u ELSE u

Letters == {"a", "b", "c", "d", "e", "f", "h", "l", "m", "o", "p", "s", "t", "x",
            "H", "P", "T"}
Digits == {"0", "1", "2", "3", "4", "5", "6", "7", "8", "9"}
HostChars == Letters \cup Digits \cup {".", "-"}
AuthorityEnd == {"/", "\\", "?", "#"}

\* the first position from i on whose character is in the set, or Len + 1
FirstIn(u, i, set) ==
  IF \E j \in i..Len(u) : u[j] \in set
  THEN CHOOSE j \in i..Len(u) : u[j] \in set /\ \A k \in i..(j - 1) : u[k] \notin set
  ELSE Len(u) + 1

\* new URL(u) does not throw, for a text that starts with http:// or
\* https://: surrounding spaces are stripped, the slashes after the scheme
\* are skipped, the authority runs to the next slash, ? or #, and after the
\* userinfo it is a non-empty host of host characters and an optional port
\* of digits
isValidUrl(u) ==
  LET t == trim(u)
      colon == FirstIn(t, 1, {":"})
      slashes == {j \in (colon + 1)..Len(t) :
                    \A k \in (colon + 1)..j : t[k] \in {"/", "\\"}}
      from == colon + 1 + Cardinality(slashes)
      to == FirstIn(t, from, AuthorityEnd) - 1
      authority == SubSeq(t, from, to)
      ats == {i \in 1..Len(authority) : authority[i] = "@"}
      hostport == IF ats = {} THEN authority
                  ELSE SubSeq(authority, (CHOOSE i \in ats : \A j \in ats : j <= i) + 1,
                              Len(authority))
      sep == FirstIn(hostport, 1, {":"})
      host == SubSeq(hostport, 1, sep - 1)
      port == SubSeq(hostport, sep + 1, Len(hostport))
  IN /\ host # <<>>
     /\ \A i \in 1..Len(host) : host[i] \in HostChars
     /\ \A i \in 1..Len(port) : port[i] \in Digits
     /\ Len(port) <= 4

\* analyzeUrlRequestSchema.parse({url}): min(1), then the transform, then
\* z.string().url(); a failed min(1) stops the chain
analyzeUrlRequestSchemaParse(u) ==
  IF Len(u) < 1
  THEN [ok |-> FALSE, message |-> "Please enter a URL", url |-> None]
  ELSE LET t == transformUrl(u)
       IN IF isValidUrl(t)
          THEN [ok |-> TRUE, message |-> "", url |-> Some(t)]
          ELSE [ok |-> FALSE, message |-> "Please enter a valid URL", url |-> None]

\* --------------------------------------------------- POST /api/analyze
\* analyzeRequestSchema without .min(1): the empty string is accepted
analyzeRequestSchemaParse_noMin(body) ==
  IF body.type = "undefined"
  THEN [ok |-> FALSE, isError |-> TRUE, message |-> "Required", htmlCode |-> None]
  ELSE IF body.type # "string"
  THEN [ok |-> FALSE, isError |-> TRUE, message |-> "Expected string", htmlCode |-> None]
  ELSE [ok |-> TRUE, isError |-> FALSE, message |-> "",
        htmlCode |-> IF body.doc = None
                     THEN Some([rawHead |-> <<>>, htmlLang |-> None, metas |-> <<>>,
                                titles |-> <<>>, h1Count |-> 0, imgs |-> <<>>,
                                bodyText |-> <<>>, tooDeep |-> FALSE])
                     ELSE body.doc]

\* analyzeRequestSchema.parse(req.body): z.object({htmlCode: z.string().min(1)})
\* returns the data or throws a ZodError, which is an instance of Error
analyzeRequestSchemaParse(body) ==
  IF body.type = "undefined"
  THEN [ok |-> FALSE, isError |-> TRUE, message |-> "Required", htmlCode |-> None]
  ELSE IF body.type # "string"
  THEN [ok |-> FALSE, isError |-> TRUE, message |-> "Expected string", htmlCode |-> None]
  ELSE IF body.doc = None
  THEN [ok |-> FALSE, isError |-> TRUE, message |-> "HTML code is required",
        htmlCode |-> None]
  ELSE [ok |-> TRUE, isError |-> FALSE, message |-> "", htmlCode |-> body.doc]

\* analyzeSEO(validatedData.htmlCode) is reached exactly when parse returned
reachesScorer(body) == analyzeRequestSchemaParse(body).ok

\* analyzeSEO throws instead of returning: $('body').text() recurses through
\* the element tree and exceeds the call stack on a too deeply nested
\* document, which raises a RangeError, an instance of Error
analyzeSEOThrows(doc) == doc.tooDeep

\* the try block: parse, then analyzeSEO; what it returns or throws
tryAnalyze(body) ==
  LET parsed == analyzeRequestSchemaParse(body)
  IN IF ~parsed.ok
     THEN [threw |-> TRUE, isError |-> parsed.isError, message |-> parsed.message,
           result |-> None]
     ELSE IF analyzeSEOThrows(parsed.htmlCode[1])
     THEN [threw |-> TRUE, isError |-> TRUE,
           message |-> "Maximum call stack size exceeded", result |-> None]
     ELSE [threw |-> FALSE, isError |-> FALSE, message |-> "",
           result |-> Some(analyzeSEO(parsed.htmlCode[1]))]

\* res.json(result), or the catch clause: 400 for an instance of Error,
\* 500 for anything else
respond(t) ==
  IF ~t.threw
  THEN [status |-> 200, message |-> None, error |-> None, json |-> t.result]
  ELSE IF t.isError
  THEN [status |-> 400, message |-> Some("Invalid request data"),
        error |-> Some(t.message), json |-> None]
  ELSE [status |-> 500, message |-> Some("Internal server error"),
        error |-> None, json |-> None]

\* the handler with totalScore kept at module level, so that a report's score
\* starts from the score of the reports sent before it
postAnalyze_shared(body) ==
  LET sent == {r \in DOMAIN requests :
                 requests[r].response # None /\ requests[r].response[1].json # None}
      carried == IF sent = {} THEN 0
                 ELSE LET last == CHOOSE r \in sent : \A q \in sent :
                                    requests[q].response[1].json[1].score
                                      <= requests[r].response[1].json[1].score
                      IN requests[last].response[1].json[1].score
  IN CHOOSE res \in {IF t.threw THEN respond(t)
                     ELSE respond([t EXCEPT !.result = Some([@[1] EXCEPT !.score = @ + carried])]) :
                       t \in {tryAnalyze(body)}} : TRUE

\* the handler in which a document without a title makes the scorer throw
postAnalyze_throwsOnNoTitle(body) ==
  CHOOSE res \in {IF ~t.threw /\ t.result[1].checks[1].score = 0
                  THEN respond([threw |-> TRUE, isError |-> TRUE,
                                message |-> "Cannot read properties of undefined",
                                result |-> None])
                  ELSE respond(t) : t \in {tryAnalyze(body)}} : TRUE

\* the handler of app.post("/api/analyze"): try { parse; analyzeSEO; res.json }
\* catch (error) { instanceof Error ? 400 : 500 }
postAnalyze(body) == CHOOSE res \in {respond(t) : t \in {tryAnalyze(body)}} : TRUE

\* ------------------------------------------------------- input documents
Rep(c, n) == [i \in 1..n |-> c]

Hi == <<"H", "i">>
TitleTexts == {<<>>, <<" ">>, Hi, <<"\n", " ">> \o Hi \o <<" ">>, Rep("t", LongTitleLen)}
TitleLists == UNION {[1..n -> TitleTexts] : n \in 0..MaxTitles}

AttrValues == {None, Some(<<>>), Some(<<" ">>), Some(<<"o", "k">>)}

Meta(n, c, cs) == [name |-> n, content |-> c, charset |-> cs]
DescMetas == {Meta(Some("description"), c, None) : c \in AttrValues}
DescLists == UNION {[1..n -> DescMetas] : n \in 0..MaxMetaDesc}
ViewportMetas == {Meta(Some("viewport"), c, None) : c \in AttrValues}
ViewportLists == UNION {[1..n -> ViewportMetas] : n \in 0..MaxViewport}
CharsetMeta == Meta(None, None, Some(<<"u", "t", "f">>))
CharsetLists == {<<>>, <<CharsetMeta>>}

GoodAlt == Some(<<"a", "l", "t">>)
BadAlts == {None, Some(<<>>), Some(<<" ">>)}
\* n img elements, the last k of them with a usable alt text
ImgList(n, k, bad) == [i \in 1..n |-> IF i <= n - k THEN bad ELSE GoodAlt]
ImgLists ==
  {ImgList(n, k, bad) : n \in 0..MaxImages, k \in 0..MaxImages, bad \in BadAlts}
  \cup UNION {[1..n -> AttrValues] : n \in 0..2}

Digit == <<"0", "1", "2", "3", "4", "5", "6", "7", "8", "9">>
Word(i) == <<"k", "w", Digit[(i \div 10) + 1], Digit[(i % 10) + 1]>>
UpperWord(i) == <<"K", "W", Digit[(i \div 10) + 1], Digit[(i % 10) + 1]>>

\* d distinct long words, then r more copies of the first one in upper case,
\* each followed by one separator; when padded, short words and whitespace
\* surround them
LongWords(d, r, sep) ==
  LET ws == [i \in 1..d |-> Word(i)] \o [i \in 1..r |-> UpperWord(1)]
  IN [i \in 1..(5 * Len(ws)) |->
        IF i % 5 = 0 THEN sep ELSE ws[((i - 1) \div 5) + 1][i % 5]]

Body(d, r, padded) ==
  IF padded
  THEN <<"\n", " ", "t", "h", "e", "\t", " ">> \o LongWords(d, r, "\n")
       \o <<" ", "e", "n", "d", "\n">>
  ELSE LET t == LongWords(d, r, " ") IN SubSeq(t, 1, Len(t) - 1)
Bodies == {Body(d, r, padded) : d \in 0..MaxDistinct, r \in 0..MaxRepeat,
                                padded \in BOOLEAN}

\* c copies of an inherited property name before or after d distinct long words
KeyBody(key, c, atFront, d) ==
  LET keys == [i \in 1..(c * (Len(key) + 1)) |->
                 IF i % (Len(key) + 1) = 0 THEN " " ELSE key[i % (Len(key) + 1)]]
  IN IF atFront THEN keys \o LongWords(d, 0, " ") ELSE LongWords(d, 0, " ") \o keys
KeyBodies == {KeyBody(key, c, atFront, d) : key \in InheritedKeys, c \in 1..MaxRepeat,
                                           atFront \in BOOLEAN, d \in 0..MaxDistinct}

Doctype == <<"<", "!", "D", "O", "C", "T", "Y", "P", "E", " ", "h", "t", "m", "l", ">">>
HtmlTag == <<"<", "h", "t", "m", "l", ">">>
RawHeads == {Doctype, <<" ", "\n">> \o toLowerCase(Doctype), HtmlTag,
             <<"<", "!", "-", "-">> \o Doctype, <<" ">>}
LangValues == {None, Some(<<>>), Some(<<"e", "n">>)}

MakeDoc(head, lang, charsets, descs, viewports, titles, h1, imgs, body) ==
  [rawHead |-> head, htmlLang |-> lang, metas |-> charsets \o descs \o viewports,
   titles |-> titles, h1Count |-> h1, imgs |-> imgs, bodyText |-> body,
   tooDeep |-> FALSE]

OkDesc == <<Meta(Some("description"), Some(<<"o", "k">>), None)>>
OkViewport == <<Meta(Some("viewport"), Some(<<"o", "k">>), None)>>

\* doctype, html lang, meta charset, a 40 character title, a description,
\* one h1, one img with alt, a viewport and 21 distinct long words
PerfectDoc ==
  MakeDoc(Doctype, Some(<<"e", "n">>), <<CharsetMeta>>, OkDesc, OkViewport,
          <<Rep("t", LongTitleLen)>>, 1, <<GoodAlt>>, Body(21, 0, FALSE))

\* a text of whitespace only: no element is found
BlankDoc == MakeDoc(<<" ">>, None, <<>>, <<>>, <<>>, <<>>, 0, <<>>, <<>>)

\* documents that combine one representative of every outcome of every rule
CoreDocs ==
  {MakeDoc(head, lang, cs, ds, vs, ts, h1, im, body) :
     head \in {Doctype, HtmlTag}, lang \in {None, Some(<<"e", "n">>)},
     cs \in CharsetLists, ds \in {<<>>, OkDesc}, vs \in {<<>>, OkViewport},
     ts \in {<<>>, <<Hi>>}, h1 \in 0..2,
     im \in {<<>>, ImgList(1, 0, None), ImgList(2, 1, None), ImgList(3, 2, None),
             ImgList(15, 14, None)},
     body \in {<<>>, Body(3, 1, FALSE), Body(21, 0, FALSE)}}

\* documents that differ from PerfectDoc in the elements one rule reads
StarDocs ==
  {[PerfectDoc EXCEPT !.titles = ts] : ts \in TitleLists}
  \cup {[PerfectDoc EXCEPT !.metas = <<CharsetMeta>> \o ds \o OkViewport] : ds \in DescLists}
  \cup {[PerfectDoc EXCEPT !.metas = <<CharsetMeta>> \o OkDesc \o vs] : vs \in ViewportLists}
  \cup {[PerfectDoc EXCEPT !.h1Count = n] : n \in 0..MaxH1}
  \cup {[PerfectDoc EXCEPT !.imgs = im] : im \in ImgLists}
  \cup {[PerfectDoc EXCEPT !.bodyText = b] : b \in Bodies \cup KeyBodies}
  \cup {[PerfectDoc EXCEPT !.rawHead = h] : h \in RawHeads}
  \cup {[PerfectDoc EXCEPT !.htmlLang = l] : l \in LangValues}

Docs == CoreDocs \cup StarDocs \cup {BlankDoc}

\* the request bodies a client can post
\* a document nested too deeply for the scorer's recursion
DeepDoc == [PerfectDoc EXCEPT !.tooDeep = TRUE]

ServerDocs == {PerfectDoc, BlankDoc, [PerfectDoc EXCEPT !.titles = <<>>], DeepDoc}
Bodies400 == {[type |-> "undefined", doc |-> None], [type |-> "number", doc |-> None],
              [type |-> "string", doc |-> None]}
RequestBodies == Bodies400 \cup {[type |-> "string", doc |-> Some(d)] : d \in ServerDocs}

NoRequest == [stage |-> "idle", body |-> None, response |-> None]

\* the parts of the program that take no step in a specification
ServerIdle ==
  /\ htmlCode = <<>> /\ report = <<>> /\ utilScore = <<>> /\ utilGrade = <<>>
  /\ requests = <<>> /\ scored = {}
UtilsIdle ==
  /\ metrics = <<>> /\ clientScore = <<>> /\ recommendations = <<>>
  /\ url = <<>> /\ urlParsed = <<>>
HomeIdle ==
  /\ homeHtmlCode = <<>> /\ analysisResults = <<>> /\ isPending = FALSE
  /\ inFlight = <<>> /\ homeEvent = "none"
DisplayIdle ==
  /\ results = <<>> /\ effectResults = <<>> /\ animatedScore = 0 /\ timers = {}
  /\ mounted = FALSE /\ renders = 0

\* ------------------------------------------------------------ the scorer
InitScorer ==
  /\ \/ htmlCode \in {Some(d) : d \in Docs} /\ utilScore = None
     \/ htmlCode = None /\ utilScore \in {Some(n) : n \in 0..maxScore}
  /\ report = None
  /\ utilGrade = None
  /\ requests = [r \in 1..NumRequests |-> NoRequest]
  /\ scored = {}
  /\ UtilsIdle /\ HomeIdle /\ DisplayIdle

Analyze ==
  /\ htmlCode # None
  /\ report = None
  /\ report' = Some(analyzeSEO(htmlCode[1]))
  /\ UNCHANGED <<htmlCode, utilScore, utilGrade, requests, scored>>
  /\ UNCHANGED <<utilsVars, homeVars, displayVars>>

FormatScore ==
  /\ utilScore # None
  /\ utilGrade = None
  /\ utilGrade' = Some(formatScoreWithGrade(utilScore[1]))
  /\ UNCHANGED <<htmlCode, report, utilScore, requests, scored>>
  /\ UNCHANGED <<utilsVars, homeVars, displayVars>>

NextScorer == Analyze \/ FormatScore

SpecScorer == InitScorer /\ [][NextScorer]_vars

\* ------------------------------------------------------------ the server
Init ==
  /\ htmlCode = None
  /\ report = None
  /\ utilScore = None
  /\ utilGrade = None
  /\ requests = [r \in 1..NumRequests |-> NoRequest]
  /\ scored = {}
  /\ UtilsIdle /\ HomeIdle /\ DisplayIdle

\* a request arrives and waits for its handler to run
Receive(r, body) ==
  /\ requests[r].stage = "idle"
  /\ requests' = [requests EXCEPT ![r] = [stage |-> "received", body |-> Some(body),
                                          response |-> None]]
  /\ UNCHANGED <<htmlCode, report, utilScore, utilGrade, scored>>
  /\ UNCHANGED <<utilsVars, homeVars, displayVars>>

\* the handler runs to completion and sends the one response
Handle(r) ==
  /\ requests[r].stage = "received"
  /\ requests' = [requests EXCEPT ![r].stage = "responded",
                                  ![r].response = Some(postAnalyze(requests[r].body[1]))]
  /\ scored' = IF reachesScorer(requests[r].body[1]) THEN scored \cup {r} ELSE scored
  /\ UNCHANGED <<htmlCode, report, utilScore, utilGrade>>
  /\ UNCHANGED <<utilsVars, homeVars, displayVars>>

Next ==
  \/ \E r \in 1..NumRequests, body \in RequestBodies : Receive(r, body)
  \/ \E r \in 1..NumRequests : Handle(r)

Spec == Init /\ [][Next]_vars
\* ================================================================ claims
\* ------------------------------------------------- the client utilities
\* what a metrics snapshot can hold: lengths around the band limits, counts,
\* flags, and the most frequent word as count out of wordCount
LengthCases == {0, 1, 29, 30, 31, 60, 61}
MetaLengthCases == {0, 1, 119, 120, 121, 160, 161}
ImageCases == {<<0, 0>>, <<2, 1>>, <<3, 3>>, <<3, 1>>}
KeywordCases == {<<0, 0>>, <<1, 21>>, <<2, 41>>, <<1, 20>>, <<1, 13>>, <<2, 25>>,
                 <<1, 10>>, <<2, 2>>}

Metrics(tl, ml, h1, im, vp, dt, lg, cs, kw) ==
  [titleLength |-> tl, metaDescriptionLength |-> ml, h1Count |-> h1,
   imageCount |-> im[1], imagesWithAlt |-> im[2], hasViewport |-> vp,
   hasDoctype |-> dt, hasLang |-> lg, hasCharset |-> cs, wordCount |-> kw[2],
   topKeywords |-> IF kw[2] = 0 THEN <<>>
                   ELSE <<[word |-> Word(1), count |-> kw[1], density |-> kw]>>]

CoreMetrics ==
  {Metrics(tl, ml, h1, im, vp, dt, lg, cs, kw) :
     tl \in {0, 30}, ml \in {0, 120}, h1 \in 0..2, im \in {<<0, 0>>, <<2, 1>>},
     vp \in BOOLEAN, dt \in BOOLEAN, lg \in BOOLEAN, cs \in BOOLEAN,
     kw \in {<<0, 0>>, <<1, 21>>}}

StarMetrics ==
  {Metrics(tl, ml, 1, <<0, 0>>, TRUE, TRUE, TRUE, TRUE, <<1, 21>>) :
     tl \in LengthCases, ml \in MetaLengthCases}
  \cup {Metrics(tl, 120, h1, im, TRUE, TRUE, TRUE, TRUE, kw) :
          tl \in {0, 60}, h1 \in 0..MaxH1, im \in ImageCases, kw \in KeywordCases}

MetricsSet == CoreMetrics \cup StarMetrics

\* a document with the measurements of a metrics snapshot
DocOf(m) ==
  MakeDoc(IF m.hasDoctype THEN Doctype ELSE HtmlTag,
          IF m.hasLang THEN Some(<<"e", "n">>) ELSE None,
          IF m.hasCharset THEN <<CharsetMeta>> ELSE <<>>,
          IF m.metaDescriptionLength = 0 THEN <<>>
          ELSE <<Meta(Some("description"), Some(Rep("d", m.metaDescriptionLength)), None)>>,
          IF m.hasViewport THEN OkViewport ELSE <<>>,
          IF m.titleLength = 0 THEN <<>> ELSE <<Rep("t", m.titleLength)>>,
          m.h1Count,
          ImgList(m.imageCount, m.imagesWithAlt, None),
          IF m.topKeywords = <<>> THEN <<>>
          ELSE Body(m.wordCount - (m.topKeywords[1].count - 1),
                    m.topKeywords[1].count - 1, FALSE))

\* the texts a caller can send as url
UrlPrefixes == {<<>>, HttpPrefix, HttpsPrefix, <<"f", "t", "p", ":", "/", "/">>,
                <<"H", "T", "T", "P", ":", "/", "/">>, <<"/", "/">>,
                <<"h", "t", "t", "p", ":", "/">>}
UrlHosts == {<<>>, <<"e", "x", ".", "c", "o", "m">>, <<"a", " ", "b">>,
             <<"l", "o", "c", "a", "l", "h", "o", "s", "t", ":", "3", "0", "0", "0">>,
             <<"x", ":", "p">>, <<" ">>}
UrlPaths == {<<>>, <<"/", "p">>, <<"?", "x">>}
Urls == {p \o h \o t : p \in UrlPrefixes, h \in UrlHosts, t \in UrlPaths}

InitUtils ==
  /\ \/ metrics \in {Some(m) : m \in MetricsSet} /\ url = None
     \/ metrics = None /\ url \in {Some(u) : u \in Urls}
  /\ clientScore = None
  /\ recommendations = None
  /\ urlParsed = None
  /\ ServerIdle /\ HomeIdle /\ DisplayIdle

CalculateScore ==
  /\ metrics # None
  /\ clientScore = None
  /\ clientScore' = Some(calculateSEOScore(metrics[1]))
  /\ UNCHANGED <<metrics, recommendations, url, urlParsed>>
  /\ UNCHANGED <<serverVars, homeVars, displayVars>>

Recommend ==
  /\ metrics # None
  /\ recommendations = None
  /\ recommendations' = Some(generateRecommendations(metrics[1]))
  /\ UNCHANGED <<metrics, clientScore, url, urlParsed>>
  /\ UNCHANGED <<serverVars, homeVars, displayVars>>

ParseUrl ==
  /\ url # None
  /\ urlParsed = None
  /\ urlParsed' = Some(analyzeUrlRequestSchemaParse(url[1]))
  /\ UNCHANGED <<metrics, clientScore, recommendations, url>>
  /\ UNCHANGED <<serverVars, homeVars, displayVars>>

NextUtils == CalculateScore \/ Recommend \/ ParseUrl

SpecUtils == InitUtils /\ [][NextUtils]_vars

\* ---------------------------------------------------------- the Home page
\* what the textarea can hold: nothing, whitespace, a typed text, the sample
sampleHTML == Doctype \o HtmlTag
HomeTexts == {<<>>, <<" ", "\n">>, <<"<", "p", ">">>, sampleHTML}

\* the reports the server can answer with
HomeReports == {analyzeSEO(PerfectDoc), analyzeSEO(BlankDoc),
                analyzeSEO([PerfectDoc EXCEPT !.titles = <<>>])}

\* the state Home keeps with useState
HomeState == [htmlCode |-> homeHtmlCode, analysisResults |-> analysisResults]

\* onChange={setHtmlCode}
onChange(st, value) == [st EXCEPT !.htmlCode = value]

\* onLoadSample={() => setHtmlCode(sampleHTML)}
onLoadSample(st) == [st EXCEPT !.htmlCode = sampleHTML]

\* onClear that also drops the report
onClear_dropsReport(st) == [st EXCEPT !.htmlCode = <<>>, !.analysisResults = None]

\* onClear={() => setHtmlCode("")}
onClear(st) == [st EXCEPT !.htmlCode = <<>>]

handleNewAnalysis(st) == [st EXCEPT !.analysisResults = None, !.htmlCode = <<>>]

\* the mutation callbacks: onSuccess stores the report, onError only toasts
onSuccess(st, data) == [st EXCEPT !.analysisResults = Some(data)]
onError(st) == st

\* Check SEO button that stays enabled while a request is pending
checkSEODisabled_ignoresAnalyzing(value, isAnalyzing) == trim(value) = <<>>

\* disabled={isAnalyzing || !value.trim()}
checkSEODisabled(value, isAnalyzing) == isAnalyzing \/ trim(value) = <<>>

\* handleAnalyze sends a request unless the text is blank
handleAnalyzeSends(st) == trim(st.htmlCode) # <<>>

HomeEvent(name, data) == [name |-> name, data |-> data]

InitHome ==
  /\ homeHtmlCode = <<>>
  /\ analysisResults = None
  /\ isPending = FALSE
  /\ inFlight = <<>>
  /\ homeEvent = HomeEvent("mount", None)
  /\ ServerIdle /\ UtilsIdle /\ DisplayIdle

SetHomeState(st) ==
  /\ homeHtmlCode' = st.htmlCode
  /\ analysisResults' = st.analysisResults

Type(value) ==
  /\ SetHomeState(onChange(HomeState, value))
  /\ homeEvent' = HomeEvent("type", None)
  /\ UNCHANGED <<isPending, inFlight>>
  /\ UNCHANGED <<serverVars, utilsVars, displayVars>>

LoadSample ==
  /\ SetHomeState(onLoadSample(HomeState))
  /\ homeEvent' = HomeEvent("loadSample", None)
  /\ UNCHANGED <<isPending, inFlight>>
  /\ UNCHANGED <<serverVars, utilsVars, displayVars>>

Clear ==
  /\ SetHomeState(onClear(HomeState))
  /\ homeEvent' = HomeEvent("clear", None)
  /\ UNCHANGED <<isPending, inFlight>>
  /\ UNCHANGED <<serverVars, utilsVars, displayVars>>

\* a click on the enabled Check SEO button runs handleAnalyze, which toasts
\* for a blank text and otherwise calls analysisMutation.mutate({htmlCode})
ClickCheckSEO ==
  /\ ~checkSEODisabled(homeHtmlCode, isPending)
  /\ Len(inFlight) < MaxInFlight
  /\ IF handleAnalyzeSends(HomeState)
     THEN /\ inFlight' = Append(inFlight, [htmlCode |-> homeHtmlCode])
          /\ isPending' = TRUE
          /\ homeEvent' = HomeEvent("analyze", None)
     ELSE /\ homeEvent' = HomeEvent("blankToast", None)
          /\ UNCHANGED <<isPending, inFlight>>
  /\ UNCHANGED <<homeHtmlCode, analysisResults>>
  /\ UNCHANGED <<serverVars, utilsVars, displayVars>>

\* a click on the disabled button reaches no handler
ClickDisabled ==
  /\ checkSEODisabled(homeHtmlCode, isPending)
  /\ homeEvent' = HomeEvent("clickDisabled", None)
  /\ UNCHANGED <<homeHtmlCode, analysisResults, isPending, inFlight>>
  /\ UNCHANGED <<serverVars, utilsVars, displayVars>>

Without(seq, i) == SubSeq(seq, 1, i - 1) \o SubSeq(seq, i + 1, Len(seq))

\* the response of a pending request arrives with a report
ResponseSuccess(i, data) ==
  /\ i \in 1..Len(inFlight)
  /\ inFlight' = Without(inFlight, i)
  /\ isPending' = (Len(inFlight) > 1)
  /\ SetHomeState(onSuccess(HomeState, data))
  /\ homeEvent' = HomeEvent("success", Some(data))
  /\ UNCHANGED <<serverVars, utilsVars, displayVars>>

\* the request of a pending mutation fails
ResponseError(i) ==
  /\ i \in 1..Len(inFlight)
  /\ inFlight' = Without(inFlight, i)
  /\ isPending' = (Len(inFlight) > 1)
  /\ SetHomeState(onError(HomeState))
  /\ homeEvent' = HomeEvent("error", None)
  /\ UNCHANGED <<serverVars, utilsVars, displayVars>>

\* Run New Analysis is rendered with the report only
NewAnalysis ==
  /\ analysisResults # None
  /\ SetHomeState(handleNewAnalysis(HomeState))
  /\ homeEvent' = HomeEvent("newAnalysis", None)
  /\ UNCHANGED <<isPending, inFlight>>
  /\ UNCHANGED <<serverVars, utilsVars, displayVars>>

NextHome ==
  \/ \E value \in HomeTexts : Type(value)
  \/ LoadSample
  \/ Clear
  \/ ClickCheckSEO
  \/ ClickDisabled
  \/ \E i \in 1..MaxInFlight, data \in HomeReports : ResponseSuccess(i, data)
  \/ \E i \in 1..MaxInFlight : ResponseError(i)
  \/ NewAnalysis

SpecHome == InitHome /\ [][NextHome]_vars

\* ------------------------------------------------------- ScoreDisplay
\* the scores of the reports ScoreDisplay is given
DisplayScores == {0, 3, 100}

\* the number of additions of target / 50 after which current reaches target
animationSteps == 50

\* Math.round(current) after k additions of increment = target / 50
roundedCurrent(k, target) == (2 * k * target + animationSteps) \div (2 * animationSteps)

\* current >= target after k additions: certain for a target of 0 and from
\* the 51st addition on, impossible before the 50th; at the 50th the sum of
\* 50 rounded floating-point terms can fall just short of the target
reachesTarget(k, target) ==
  IF target = 0 \/ k > animationSteps THEN {TRUE}
  ELSE IF k < animationSteps THEN {FALSE}
  ELSE BOOLEAN

\* return () => clearInterval(timer): the timer of the effect that ran for deps
effectCleanup(active, deps) ==
  IF deps = None THEN active ELSE {t \in active : t.id # deps[1].render}

InitDisplay ==
  /\ results = None
  /\ effectResults = None
  /\ animatedScore = 0
  /\ timers = {}
  /\ mounted = TRUE
  /\ renders = 0
  /\ ServerIdle /\ UtilsIdle /\ HomeIdle

\* Home renders ScoreDisplay with another value of analysisResults
Render(score) ==
  /\ mounted
  /\ renders < MaxRenders
  /\ renders' = renders + 1
  /\ results' = IF score = None THEN None
                ELSE Some([score |-> score[1], render |-> renders + 1])
  /\ results' # results
  /\ UNCHANGED <<effectResults, animatedScore, timers, mounted>>
  /\ UNCHANGED <<serverVars, utilsVars, homeVars>>

\* after the render the effect of the previous results is cleaned up and
\* the effect runs for the new results: setInterval with current = 0
RunEffect ==
  /\ mounted
  /\ effectResults # results
  /\ effectResults' = results
  /\ timers' = effectCleanup(timers, effectResults)
               \cup (IF results = None THEN {}
                     ELSE {[id |-> results[1].render, ticks |-> 0,
                            target |-> results[1].score]})
  /\ UNCHANGED <<results, animatedScore, mounted, renders>>
  /\ UNCHANGED <<serverVars, utilsVars, homeVars>>

\* the interval callback of timer t, 30 ms after the previous one
Tick(t) ==
  /\ t \in timers
  /\ \E done \in reachesTarget(t.ticks + 1, t.target) :
       IF done
       THEN /\ timers' = timers \ {t}
            /\ animatedScore' = t.target
       ELSE /\ timers' = (timers \ {t}) \cup {[t EXCEPT !.ticks = @ + 1]}
            /\ animatedScore' = roundedCurrent(t.ticks + 1, t.target)
  /\ UNCHANGED <<results, effectResults, mounted, renders>>
  /\ UNCHANGED <<serverVars, utilsVars, homeVars>>

\* the component unmounts: the cleanup of the last effect runs
Unmount ==
  /\ mounted
  /\ mounted' = FALSE
  /\ timers' = effectCleanup(timers, effectResults)
  /\ UNCHANGED <<results, effectResults, animatedScore, renders>>
  /\ UNCHANGED <<serverVars, utilsVars, homeVars>>

NextDisplay ==
  \/ \E score \in {None} \cup {Some(n) : n \in DisplayScores} : Render(score)
  \/ RunEffect
  \/ \E t \in timers : Tick(t)
  \/ Unmount

\* effects run after every render and a running interval keeps firing
SpecDisplay ==
  /\ InitDisplay
  /\ [][NextDisplay]_vars
  /\ WF_vars(RunEffect)
  /\ WF_vars(\E t \in timers : Tick(t))

\* ------------------------------------------------------------ the claims
Analyzed == report # None
TheDoc == htmlCode[1]
TheReport == report[1]
CheckIds == 1..7

RECURSIVE SumScores(_, _)
SumScores(checks, i) ==
  IF i > Len(checks) THEN 0 ELSE checks[i].score + SumScores(checks, i + 1)

RECURSIVE SumMaxScores(_, _)
SumMaxScores(checks, i) ==
  IF i > Len(checks) THEN 0 ELSE checks[i].maxScore + SumMaxScores(checks, i + 1)

\* C1: the report's score is the sum of the scores of its seven checks and
\* lies in 0..100; maxScore is 100 and is the sum of the checks' maxScore.
C1_ScoreIsSumOfChecks ==
  Analyzed =>
    /\ Len(TheReport.checks) = 7
    /\ TheReport.score = SumScores(TheReport.checks, 1)
    /\ TheReport.score \in 0..100
    /\ TheReport.maxScore = 100
    /\ TheReport.maxScore = SumMaxScores(TheReport.checks, 1)

\* a report whose total mixes full, partial and zero scores
C1_Witness ==
  /\ Analyzed
  /\ TheReport.checks[4].score = 8
  /\ TheReport.checks[6].score = 10
  /\ TheReport.checks[1].score = 0
  /\ TheReport.score \in 18..85

\* C2: every check has an integer score with 0 <= score <= maxScore, for
\* every image count n and every number k <= n of images with alt text.
C2_CheckScoreWithinMax ==
  Analyzed =>
    \A i \in CheckIds :
      TheReport.checks[i].score \in 0..TheReport.checks[i].maxScore

\* the image check of a document with at least three images, some without alt
C2_Witness ==
  /\ Analyzed
  /\ Len(images(TheDoc)) >= 3
  /\ Len(imagesWithAlt(TheDoc)) \in 1..(Len(images(TheDoc)) - 1)
  /\ TheReport.checks[4].score \in 1..14

\* C3: for each of the seven checks, status is "success" exactly when passed
\* is true.
C3_SuccessIffPassed ==
  Analyzed =>
    \A i \in CheckIds :
      (TheReport.checks[i].status = "success") <=> TheReport.checks[i].passed

\* a report with a warning check, an error check and a success check
C3_Witness ==
  /\ Analyzed
  /\ \E i \in CheckIds : TheReport.checks[i].status = "warning" /\ ~TheReport.checks[i].passed
  /\ \E i \in CheckIds : TheReport.checks[i].status = "error" /\ ~TheReport.checks[i].passed
  /\ \E i \in CheckIds : TheReport.checks[i].status = "success" /\ TheReport.checks[i].passed

\* C4: every check whose status is "warning" has 0 < score < maxScore.
C4_WarningIsPartialCredit ==
  Analyzed =>
    \A i \in CheckIds :
      TheReport.checks[i].status = "warning" =>
        /\ 0 < TheReport.checks[i].score
        /\ TheReport.checks[i].score < TheReport.checks[i].maxScore

\* the letter of the threshold table, by score range
LetterOfRange(n) ==
  CASE n \in 90..100 -> "A+"
    [] n \in 80..89 -> "A"
    [] n \in 70..79 -> "B"
    [] n \in 60..69 -> "C"
    [] n \in 50..59 -> "D"
    [] OTHER -> "F"

GradeText(n) == LetterOfRange(n) \o " (" \o ToString(n) \o "/100)"

\* C5: the grade is "<letter> (<score>/100)" with the report's own score and
\* the letter of the threshold table, both in the report of analyzeSEO and in
\* formatScoreWithGrade, for every integer score 0..100.
C5_GradeMatchesScore ==
  /\ Analyzed => TheReport.grade = GradeText(TheReport.score)
  /\ utilGrade # None => utilGrade[1] = GradeText(utilScore[1])

\* a report just under the A+ threshold
C5_Witness == Analyzed /\ TheReport.score = 89 /\ TheReport.grade = "A (89/100)"

\* C6: passedCount counts the checks with passed, issuesCount those without,
\* warningCount those with status "warning", and passedCount + issuesCount = 7.
C6_CountsFromPassed ==
  Analyzed =>
    /\ TheReport.passedCount = Cardinality({i \in CheckIds : TheReport.checks[i].passed})
    /\ TheReport.issuesCount = Cardinality({i \in CheckIds : ~TheReport.checks[i].passed})
    /\ TheReport.warningCount
         = Cardinality({i \in CheckIds : TheReport.checks[i].status = "warning"})
    /\ TheReport.passedCount + TheReport.issuesCount = 7

\* a report where some failed checks are warnings and others are errors
C6_Witness ==
  /\ Analyzed
  /\ TheReport.warningCount >= 1
  /\ TheReport.issuesCount > TheReport.warningCount
  /\ TheReport.passedCount >= 1

Responded(r) == requests[r].stage = "responded"

C8_SevenChecksInOrder ==
  Analyzed =>
    /\ Len(TheReport.checks) = 7
    /\ [i \in CheckIds |-> TheReport.checks[i].name]
         = <<"Title Tag", "Meta Description", "H1 Tag", "Image Alt Attributes",
             "Mobile Viewport Tag", "Keyword Density", "General Improvements">>
    /\ [i \in CheckIds |-> TheReport.checks[i].maxScore] = <<15, 15, 10, 15, 10, 20, 15>>

\* the report of a document in which no element is found
C8_Witness == Analyzed /\ TheDoc = BlankDoc /\ Len(TheReport.checks) = 7

TitleFailed(c) == ~c.passed /\ c.score = 0 /\ c.status = "error"
TitleFull(c) == c.passed /\ c.score = 15 /\ c.status = "success"

\* C9 as stated: the Title Tag check passes if and only if the document has
\* exactly one title element and its text is non-empty; zero titles or more
\* than one title give passed=false, score 0, status error.
C9_TitleExactlyOne ==
  Analyzed =>
    /\ TheReport.checks[1].passed
         <=> (Len(TheDoc.titles) = 1 /\ trim(TheDoc.titles[1]) # <<>>)
    /\ Len(TheDoc.titles) # 1 => TitleFailed(TheReport.checks[1])

\* C9 amended: the Title Tag check passes if and only if the document has at
\* least one title element and the text of the first one is non-empty after
\* trimming; further title elements do not change the result; zero titles
\* give passed=false, score 0, status error.
C9_TitleFirstNonEmpty ==
  Analyzed =>
    /\ TheReport.checks[1].passed
         <=> (Len(TheDoc.titles) >= 1 /\ trim(TheDoc.titles[1]) # <<>>)
    /\ Len(TheDoc.titles) = 0 => TitleFailed(TheReport.checks[1])
    /\ Len(TheDoc.titles) >= 1 =>
         TheReport.checks[1] = titleCheck([TheDoc EXCEPT !.titles = <<TheDoc.titles[1]>>])

\* a document with two title elements whose title check passes
C9_Witness ==
  /\ Analyzed
  /\ Len(TheDoc.titles) = 2
  /\ TheReport.checks[1].passed

\* C10: a first title that is non-empty after trimming gets passed=true,
\* score 15, status success whatever its length; an empty one or none gets
\* score 0 and status error; no other score occurs.
C10_TitleFullCreditAnyLength ==
  Analyzed =>
    LET t == IF TheDoc.titles = <<>> THEN <<>> ELSE trim(TheDoc.titles[1])
    IN /\ Len(t) > 0 => TitleFull(TheReport.checks[1])
       /\ Len(t) = 0 => TitleFailed(TheReport.checks[1])
       /\ TheReport.checks[1].score \in {0, 15}

\* a title of two characters with full credit
C10_Witness ==
  /\ Analyzed
  /\ TheDoc.titles # <<>>
  /\ Len(trim(TheDoc.titles[1])) = 2
  /\ TheReport.checks[1].score = 15
Result(c, p, sc, st) == c.passed = p /\ c.score = sc /\ c.status = st

\* the images of the document and those with an alt text left after trimming
ImgCount == Len(TheDoc.imgs)
AltCount ==
  Cardinality({i \in 1..Len(TheDoc.imgs) :
                 TheDoc.imgs[i] # None /\ trim(TheDoc.imgs[i][1]) # <<>>})

\* C11: with n img elements of which k have a non-empty trimmed alt: n = 0
\* gives 15, passed, success; otherwise score = round(15*k/n), passed iff
\* k = n, success iff k = n, warning iff k < n and k/n > 0.5, error iff
\* k/n <= 0.5.
C11_ImageAltProportional ==
  Analyzed =>
    LET c == TheReport.checks[4]
        n == ImgCount
        k == AltCount
    IN /\ n = 0 => Result(c, TRUE, 15, "success")
       /\ n > 0 =>
            /\ 2 * n * c.score - n <= 30 * k
            /\ 30 * k < 2 * n * c.score + n
            /\ c.passed <=> (k = n)
            /\ (c.status = "success") <=> (k = n)
            /\ (c.status = "warning") <=> (k < n /\ 2 * k > n)
            /\ (c.status = "error") <=> (2 * k <= n)

\* three images, one with alt: score 5, not passed, error
C11_Witness ==
  /\ Analyzed
  /\ ImgCount = 3 /\ AltCount = 1
  /\ Result(TheReport.checks[4], FALSE, 5, "error")

\* the tokens of the Keyword Density rule; the highest frequency of a token
\* among them is below 5 per cent of their number
TokenCount == Len(words(TheDoc))
TopShareBelow5Percent(ws) ==
  \A i \in 1..Len(ws) :
    20 * Cardinality({j \in 1..Len(ws) : ws[j] = ws[i]}) < Len(ws)
TrulyGood == \E ws \in {words(TheDoc)} : Len(ws) > 0 /\ TopShareBelow5Percent(ws)

\* C12: with N tokens longer than 3 characters and m the highest frequency of
\* a token: good iff N > 0 and m/N < 0.05; good gives passed, 20, success;
\* N > 0 and not good gives not passed, 10, warning; N = 0 gives 0, error.
C12_KeywordDensityByTopShare ==
  Analyzed =>
    LET c == TheReport.checks[6]
    IN \E good \in {TrulyGood}, N \in {TokenCount} :
         /\ good => Result(c, TRUE, 20, "success")
         /\ (N > 0 /\ ~good) => Result(c, FALSE, 10, "warning")
         /\ N = 0 => Result(c, FALSE, 0, "error")

\* C13: 5 points each for html lang, meta charset and a raw text that starts
\* with "<!doctype" after trimming, in any case; passed iff 15; success at 15,
\* warning at 10, error at 5 or 0.
C13_GeneralImprovements ==
  Analyzed =>
    LET c == TheReport.checks[7]
        lang == IF TheDoc.htmlLang # None THEN 5 ELSE 0
        charset == IF \E i \in 1..Len(TheDoc.metas) : TheDoc.metas[i].charset # None
                   THEN 5 ELSE 0
        doctype == IF startsWith(toLowerCase(trim(TheDoc.rawHead)), DoctypePrefix)
                   THEN 5 ELSE 0
    IN /\ c.score = lang + charset + doctype
       /\ c.passed <=> (c.score = 15)
       /\ c.score = 15 => c.status = "success"
       /\ c.score = 10 => c.status = "warning"
       /\ c.score \in {0, 5} => c.status = "error"

\* a document with a doctype in upper case after leading whitespace only
C13_Witness ==
  /\ Analyzed
  /\ TheDoc.rawHead # trim(TheDoc.rawHead)
  /\ Result(TheReport.checks[7], TRUE, 15, "success")

\* the description meta elements of the document, in document order
DescEls == SelectSeq(TheDoc.metas, LAMBDA m : m.name = Some("description"))

\* C14: the Meta Description check passes (15, success) iff the content of
\* the first meta named description is non-empty after trimming; no such
\* element, no content attribute or whitespace only give not passed, 0, error.
C14_MetaDescriptionFirstContent ==
  Analyzed =>
    LET c == TheReport.checks[2]
        present == /\ DescEls # <<>>
                   /\ DescEls[1].content # None
                   /\ trim(DescEls[1].content[1]) # <<>>
    IN /\ present => Result(c, TRUE, 15, "success")
       /\ ~present => Result(c, FALSE, 0, "error")

\* a whitespace-only first description followed by a good one: not passed
C14_Witness ==
  /\ Analyzed
  /\ Len(DescEls) = 2
  /\ DescEls[1].content = Some(<<" ">>)
  /\ DescEls[2].content = Some(<<"o", "k">>)
  /\ Result(TheReport.checks[2], FALSE, 0, "error")

\* C15: the H1 Tag check passes (10, success) iff there is exactly one h1; no
\* h1 and two or more h1 give not passed, 0, error.
C15_ExactlyOneH1 ==
  Analyzed =>
    LET c == TheReport.checks[3]
    IN /\ TheDoc.h1Count = 1 => Result(c, TRUE, 10, "success")
       /\ TheDoc.h1Count # 1 => Result(c, FALSE, 0, "error")

\* a document with two h1 elements
C15_Witness ==
  /\ Analyzed
  /\ TheDoc.h1Count = 2
  /\ Result(TheReport.checks[3], FALSE, 0, "error")

\* the viewport meta elements of the document, in document order
ViewportEls == SelectSeq(TheDoc.metas, LAMBDA m : m.name = Some("viewport"))

\* C16: the Mobile Viewport check passes (10, success) iff the content of the
\* first meta named viewport is a non-empty string, untrimmed; otherwise not
\* passed, 0, error.
C16_ViewportAnyContent ==
  Analyzed =>
    LET c == TheReport.checks[5]
        present == /\ ViewportEls # <<>>
                   /\ ViewportEls[1].content # None
                   /\ Len(ViewportEls[1].content[1]) > 0
    IN /\ present => Result(c, TRUE, 10, "success")
       /\ ~present => Result(c, FALSE, 0, "error")

\* a viewport whose content is a single space passes
C16_Witness ==
  /\ Analyzed
  /\ ViewportEls # <<>>
  /\ ViewportEls[1].content = Some(<<" ">>)
  /\ Result(TheReport.checks[5], TRUE, 10, "success")

\* the seven pass conditions, stated on the document
MeetsAllSeven ==
  /\ TheDoc.titles # <<>> /\ trim(TheDoc.titles[1]) # <<>>
  /\ DescEls # <<>> /\ DescEls[1].content # None /\ trim(DescEls[1].content[1]) # <<>>
  /\ TheDoc.h1Count = 1
  /\ AltCount = ImgCount
  /\ ViewportEls # <<>> /\ ViewportEls[1].content # None
  /\ Len(ViewportEls[1].content[1]) > 0
  /\ TheDoc.htmlLang # None
  /\ \E i \in 1..Len(TheDoc.metas) : TheDoc.metas[i].charset # None
  /\ startsWith(toLowerCase(trim(TheDoc.rawHead)), DoctypePrefix)
  /\ TrulyGood

\* C17: a document that meets all seven pass conditions gets score 100,
\* grade "A+ (100/100)", passedCount 7, issuesCount 0 and warningCount 0.
C17_PerfectDocumentScores100 ==
  (Analyzed /\ MeetsAllSeven) =>
    /\ TheReport.score = 100
    /\ TheReport.grade = "A+ (100/100)"
    /\ TheReport.passedCount = 7
    /\ TheReport.issuesCount = 0
    /\ TheReport.warningCount = 0

TheResponse(r) == requests[r].response[1]
TheBody(r) == requests[r].body[1]
ValidBody(b) == b.type = "string" /\ b.doc # None

\* C18: a failure raised while scoring a validated request is answered with
\* status 500 and a message only; status 400 is sent only when validation
\* fails.
C18_ScoringFailureIs500 ==
  \A r \in DOMAIN requests :
    Responded(r) =>
      /\ (ValidBody(TheBody(r)) /\ TheResponse(r).json = None) =>
           /\ TheResponse(r).status = 500
           /\ TheResponse(r).error = None
      /\ TheResponse(r).status = 400 => ~ValidBody(TheBody(r))

\* C19: a request whose htmlCode is missing, not a string or empty gets status
\* 400 with message and error and never reaches analyzeSEO; every request
\* whose htmlCode is a string of length >= 1 reaches analyzeSEO.
C19_ValidationGuardsScorer ==
  \A r \in DOMAIN requests :
    Responded(r) =>
      /\ ~ValidBody(TheBody(r)) =>
           /\ TheResponse(r).status = 400
           /\ TheResponse(r).message # None
           /\ TheResponse(r).error # None
           /\ TheResponse(r).json = None
           /\ r \notin scored
      /\ ValidBody(TheBody(r)) => r \in scored

\* an empty string rejected and a whitespace-only text scored
C19_Witness ==
  \E r1, r2 \in DOMAIN requests :
    /\ Responded(r1) /\ Responded(r2)
    /\ TheBody(r1) = [type |-> "string", doc |-> None]
    /\ TheResponse(r1).status = 400 /\ r1 \notin scored
    /\ TheBody(r2) = [type |-> "string", doc |-> Some(BlankDoc)]
    /\ TheResponse(r2).status = 200 /\ r2 \in scored

CompleteReport(rep) ==
  /\ DOMAIN rep = {"score", "maxScore", "grade", "checks", "issuesCount",
                   "passedCount", "warningCount"}
  /\ Len(rep.checks) = 7
  /\ rep.passedCount + rep.issuesCount = 7

WellFormedResponse(r) ==
  \/ /\ TheResponse(r).status = 200
     /\ TheResponse(r).json # None
     /\ CompleteReport(TheResponse(r).json[1])
     /\ TheResponse(r).message = None /\ TheResponse(r).error = None
  \/ /\ TheResponse(r).status \in {400, 500}
     /\ TheResponse(r).json = None
     /\ TheResponse(r).message # None

RECURSIVE JoinFrom(_, _)
JoinFrom(ws, i) ==
  IF i > Len(ws) THEN <<>> ELSE ws[i] \o <<" ">> \o JoinFrom(ws, i + 1)

OtherMetas(doc, n) == SelectSeq(doc.metas, LAMBDA m : m.name # Some(n))
NamedMeta(n, content) ==
  IF content = None THEN <<>> ELSE <<[name |-> Some(n), content |-> content, charset |-> None]>>

\* the document `base` in which the measurements of rule i, and nothing
\* else, are those of document d
Graft(base, i, d) ==
  CASE i = 1 -> [base EXCEPT !.titles = <<title(d)>>]
    [] i = 2 -> [base EXCEPT !.metas = OtherMetas(base, "description")
                     \o NamedMeta("description", FirstAttr(MetaNamed(d, "description"), "content"))]
    [] i = 3 -> [base EXCEPT !.h1Count = h1Tags(d)]
    [] i = 4 -> [base EXCEPT !.imgs = [j \in 1..Len(images(d)) |->
                     IF j <= Len(imagesWithAlt(d)) THEN GoodAlt ELSE None]]
    [] i = 5 -> [base EXCEPT !.metas = OtherMetas(base, "viewport")
                     \o NamedMeta("viewport", viewport(d))]
    [] i = 6 -> [base EXCEPT !.bodyText = JoinFrom(words(d), 1)]
    [] i = 7 -> [base EXCEPT !.htmlLang = IF hasLang(d) THEN Some(<<"e", "n">>) ELSE None,
                             !.rawHead = IF hasDoctype(d) THEN Doctype ELSE HtmlTag,
                             !.metas = SelectSeq(base.metas, LAMBDA m : m.charset = None)
                                       \o (IF hasCharset(d) THEN <<CharsetMeta>> ELSE <<>>)]

SameResult(c1, c2) ==
  c1.passed = c2.passed /\ c1.score = c2.score /\ c1.status = c2.status

\* the i-th check of analyzeSEO
CheckOf(i, doc) ==
  CASE i = 1 -> titleCheck(doc)
    [] i = 2 -> metaCheck(doc)
    [] i = 3 -> h1Check(doc)
    [] i = 4 -> altCheck(doc)
    [] i = 5 -> viewportCheck(doc)
    [] i = 6 -> keywordCheck(doc)
    [] i = 7 -> improvementCheck(doc)

\* a document that passes every rule but the keyword rule, and an empty one
GraftBases == {[PerfectDoc EXCEPT !.bodyText = Body(3, 1, FALSE)], BlankDoc}

\* C21: each check's passed, score and status depend only on that rule's own
\* measurements: the check of the analysed document equals the check of a
\* passing and of an empty document given the same measurements for that rule.
C21_RulesIndependent ==
  Analyzed =>
    \A d \in {TheDoc} : \A base \in GraftBases : \A i \in CheckIds :
      \A g \in {Graft(base, i, d)} : \A c \in {CheckOf(i, g)} :
        SameResult(TheReport.checks[i], c)

\* one h1 passes although the title and the keyword rule fail
C21_Witness ==
  /\ Analyzed
  /\ TheReport.checks[3].passed
  /\ ~TheReport.checks[1].passed
  /\ ~TheReport.checks[6].passed
  /\ TheReport.checks[7].score = 10
\* C25: a report with score 100 has all seven checks passed, issuesCount 0
\* and warningCount 0; a check that did not pass scores strictly less than
\* its maxScore.
C25_Score100NoIssues ==
  Analyzed =>
    /\ TheReport.score = 100 =>
         /\ \A i \in CheckIds : TheReport.checks[i].passed
         /\ TheReport.issuesCount = 0
         /\ TheReport.warningCount = 0
    /\ \A i \in CheckIds :
         ~TheReport.checks[i].passed => TheReport.checks[i].score < TheReport.checks[i].maxScore

\* C26: a body with 1 to 20 tokens longer than 3 characters never has good
\* keyword density: the check is not passed, scores 10 with status warning,
\* and the total is at most 90.
C26_FewTokensNeverGood ==
  (Analyzed /\ TokenCount \in 1..20) =>
    /\ Result(TheReport.checks[6], FALSE, 10, "warning")
    /\ TheReport.score <= 90

\* 20 tokens, all distinct, in an otherwise perfect document: 90
C26_Witness ==
  /\ Analyzed
  /\ \E ws \in {words(TheDoc)} :
       /\ Len(ws) = 20
       /\ \A i, j \in 1..Len(ws) : ws[i] = ws[j] => i = j
  /\ Result(TheReport.checks[6], FALSE, 10, "warning")
  /\ TheReport.score = 90

RECURSIVE SumCounts(_, _)
SumCounts(freq, i) ==
  IF i > Len(freq) THEN 0 ELSE freq[i].count + SumCounts(freq, i + 1)

\* C30: for every token kept by the tokenizer, names of inherited properties
\* included, the frequency map holds the number of its occurrences, the
\* values sum to wordCount, and the first entry after sorting has the
\* maximum count.
C30_FrequencyMapExact ==
  Analyzed =>
    \E ws \in {words(TheDoc)} : \E freq \in {wordFreq(ws)} : \E top \in {topWords(freq)} :
      /\ \A i \in 1..Len(ws) : \E j \in 1..Len(freq) :
           /\ freq[j].word = ws[i]
           /\ freq[j].isNum
           /\ freq[j].count = Cardinality({k \in 1..Len(ws) : ws[k] = ws[i]})
      /\ SumCounts(freq, 1) = Len(ws)
      /\ Len(ws) > 0 =>
           /\ Len(top) > 0
           /\ \A j \in 1..Len(freq) : freq[j].count <= top[1].count
\* the text has a scheme: letters, then ://
CarriesScheme(u) ==
  \E k \in 1..Len(u) :
    /\ \A j \in 1..k : u[j] \in Letters
    /\ Len(u) >= k + 3
    /\ SubSeq(u, k + 1, k + 3) = <<":", "/", "/">>

\* C22: analyzeUrlRequestSchema prepends https:// exactly when the input has
\* no scheme and leaves an input with a scheme unchanged, then validates the
\* result as a URL; the empty string is rejected with "Please enter a URL",
\* an invalid result with "Please enter a valid URL".
C22_UrlSchemePrepended ==
  urlParsed # None =>
    \E u \in {url[1]} : \E r \in {urlParsed[1]} :
      \E out \in {IF CarriesScheme(u) THEN u ELSE HttpsPrefix \o u} :
        IF u = <<>> THEN ~r.ok /\ r.message = "Please enter a URL"
        ELSE IF isValidUrl(out) THEN r.ok /\ r.url = Some(out)
        ELSE ~r.ok /\ r.message = "Please enter a valid URL"

RecsOfType(type) == SelectSeq(recommendations[1], LAMBDA r : r.type = type)
OneRec(type, severity, message) == <<Recommendation(type, severity, message)>>

\* C23: generateRecommendations gives for title length 0 one title error,
\* for 1..29 one warning (too short), for 30..60 none, above 60 one warning
\* (too long); for meta description length 0 one meta error, for 1..119 one
\* warning, for 120..160 none, above 160 one warning; whatever the other
\* metrics are.
C23_RecommendationBands ==
  recommendations # None =>
    \E tl \in {metrics[1].titleLength} : \E ml \in {metrics[1].metaDescriptionLength} :
      /\ RecsOfType("title") =
           (IF tl = 0 THEN OneRec("title", "error", "Missing title tag")
            ELSE IF tl \in 1..29 THEN OneRec("title", "warning", "Title tag is too short")
            ELSE IF tl \in 30..60 THEN <<>>
            ELSE OneRec("title", "warning", "Title tag is too long"))
      /\ RecsOfType("meta") =
           (IF ml = 0 THEN OneRec("meta", "error", "Missing meta description")
            ELSE IF ml \in 1..119
            THEN OneRec("meta", "warning", "Meta description is too short")
            ELSE IF ml \in 120..160 THEN <<>>
            ELSE OneRec("meta", "warning", "Meta description is too long"))

\* a title of 30 characters gets no recommendation while the rest fails
C23_Witness ==
  /\ recommendations # None
  /\ metrics[1].titleLength = 30
  /\ metrics[1].metaDescriptionLength = 0
  /\ ~metrics[1].hasViewport
  /\ RecsOfType("title") = <<>>
  /\ Len(RecsOfType("meta")) = 1
  /\ Len(recommendations[1]) >= 5

\* the metrics on which the title, meta description and keyword bands of the
\* client utility and the server agree
InCommonBands(m) ==
  /\ m.titleLength = 0 \/ m.titleLength \in 30..60
  /\ m.metaDescriptionLength = 0 \/ m.metaDescriptionLength \in 120..160
  /\ \/ m.topKeywords = <<>>
     \/ /\ DensityAbove(m.topKeywords[1].density, 10)
        /\ DensityBelow(m.topKeywords[1].density, 50)
     \/ ~DensityBelow(m.topKeywords[1].density, 80)

\* C24: for metrics in the common bands calculateSEOScore returns the total
\* of the server's seven rules on the same measurements, for every h1 count,
\* image counts, viewport, doctype, lang and charset.
C24_ClientScoreEqualsServer ==
  (clientScore # None /\ InCommonBands(metrics[1])) =>
    \E d \in {DocOf(metrics[1])} : clientScore[1] = analyzeSEO(d).score

\* C24, amended: the same for every metrics in the common bands whose h1
\* count is 0 or 1.
C24_ClientScoreEqualsServerUpToOneH1 ==
  (clientScore # None /\ InCommonBands(metrics[1]) /\ metrics[1].h1Count <= 1) =>
    \E d \in {DocOf(metrics[1])} : clientScore[1] = analyzeSEO(d).score

\* one of two images with alt, no h1, no doctype: both totals are 78
C24_Witness ==
  /\ clientScore # None
  /\ InCommonBands(metrics[1])
  /\ metrics[1].h1Count = 0
  /\ metrics[1].imageCount = 2 /\ metrics[1].imagesWithAlt = 1
  /\ ~metrics[1].hasDoctype /\ metrics[1].hasLang /\ metrics[1].hasCharset
  /\ metrics[1].hasViewport
  /\ metrics[1].titleLength = 30 /\ metrics[1].metaDescriptionLength = 120
  /\ metrics[1].topKeywords # <<>>
  /\ clientScore[1] = 78
\* C27: in the Home page at most one analysis request is in flight at any
\* time, and a request is sent only while none is pending and the text is
\* not blank, for every interleaving of typing, Load Sample, Clear, Check SEO
\* clicks and responses.
C27_OneRequestInFlight ==
  /\ [](Len(inFlight) <= 1 /\ (isPending <=> inFlight # <<>>))
  /\ [][Len(inFlight') > Len(inFlight) =>
          /\ ~isPending
          /\ inFlight = <<>>
          /\ trim(homeHtmlCode) # <<>>
          /\ inFlight' = <<[htmlCode |-> homeHtmlCode]>>]_vars

\* a request is pending, the text was cleared meanwhile, the button is off
C27_Witness ==
  /\ Len(inFlight) = 1
  /\ isPending
  /\ inFlight[1].htmlCode = sampleHTML
  /\ homeHtmlCode = <<>>
  /\ homeEvent.name = "clickDisabled"

\* C28: analysisResults changes only when a successful response sets it to
\* that response and when Run New Analysis sets it to null and clears
\* htmlCode; a failed analysis, a Check SEO click on a blank text, typing,
\* Load Sample and Clear leave it unchanged.
C28_ResultsChangeOnTwoEvents ==
  [][/\ analysisResults' # analysisResults =>
          \/ /\ homeEvent'.name = "success"
             /\ analysisResults' = homeEvent'.data
          \/ /\ homeEvent'.name = "newAnalysis"
             /\ analysisResults' = None
             /\ homeHtmlCode' = <<>>
     /\ homeEvent'.name = "success" => analysisResults' = homeEvent'.data
     /\ homeEvent'.name = "newAnalysis" => analysisResults' = None /\ homeHtmlCode' = <<>>
     /\ homeEvent'.name \in {"error", "clickDisabled", "blankToast", "type",
                             "loadSample", "clear", "analyze"} =>
          analysisResults' = analysisResults]_vars

\* a report stays displayed after Clear while the next request failed
C28_Witness ==
  /\ analysisResults # None
  /\ homeEvent.name = "error"
  /\ homeHtmlCode = <<>>
  /\ ~isPending
DisplayResults ==
  {[score |-> n, render |-> i] : n \in DisplayScores, i \in 1..(MaxRenders + 1)}

AnimationDone(r) ==
  /\ effectResults = Some(r)
  /\ timers = {}
  /\ animatedScore = r.score

\* C29: for a report with score in 0..100 the animation ends after finitely
\* many ticks with the timer cleared and animatedScore = results.score;
\* animatedScore never exceeds the target during that animation; when results
\* changes or the component unmounts the previous timer is cleared, so two
\* timers never run at once.
C29_AnimationEndsOnTarget ==
  /\ \A r \in DisplayResults :
       (mounted /\ results = Some(r)) ~> (~mounted \/ results # Some(r) \/ AnimationDone(r))
  /\ [](\A t \in timers :
          (results # None /\ t.id = results[1].render) => animatedScore <= t.target)
  /\ [](Cardinality(timers) <= 1 /\ (~mounted => timers = {}))
====
